---------------------------- MODULE Spec2Model ----------------------------
(***************************************************************************)
(* Model of the deq_stats analysis scripts:                                *)
(*   get_trend_allstation.py         (main: monthly means, summary CSV)    *)
(*   get_trend_allstation_median.py  (analyze_station: monthly medians)    *)
(*   get_trend.py                    (single spreadsheet, Excel dates)     *)
(*   split_csv.py                    (master table -> one CSV per station) *)
(*                                                                         *)
(* Numbers.  Depths and measured values are decimal numbers in the data;   *)
(* the model keeps them as integers counted in tenths (depth 10 = 1.0 m,   *)
(* value 72 = 7.2).  Everything the scripts derive from them (means,       *)
(* medians, interpolated values, slopes) is an exact rational <<n, d>>     *)
(* with d > 0 in lowest terms, still in tenths.  A missing cell (pandas    *)
(* NaN / NaT) is the empty tuple.  A date is <<year, month, day>>.         *)
(***************************************************************************)
EXTENDS Integers, Sequences, FiniteSets, TLC

NaN == <<>>

(***************************************************************************)
(* Exact rational arithmetic (stands for the float64 arithmetic of numpy). *)
(***************************************************************************)
Abs(i) == IF i < 0 THEN -i ELSE i

RECURSIVE Gcd(_, _)
Gcd(a, b) == IF b = 0 THEN a ELSE Gcd(b, a % b)

Rat(n, d) ==
    LET s == IF d < 0 THEN -1 ELSE 1
        g == Gcd(Abs(n), Abs(d))
    IN  <<(s * n) \div g, (s * d) \div g>>

RInt(i)    == <<i, 1>>
RAdd(p, q) == Rat(p[1] * q[2] + q[1] * p[2], p[2] * q[2])
RSub(p, q) == Rat(p[1] * q[2] - q[1] * p[2], p[2] * q[2])
RMul(p, q) == Rat(p[1] * q[1], p[2] * q[2])
RDiv(p, q) == Rat(p[1] * q[2], p[2] * q[1])
RLess(p, q) == p[1] * q[2] < q[1] * p[2]
RLeq(p, q)  == p[1] * q[2] <= q[1] * p[2]

(***************************************************************************)
(* Calendar.  ToOrdinal is pandas.Timestamp.toordinal: the proleptic       *)
(* Gregorian day number, 0001-01-01 being day 1.                           *)
(***************************************************************************)
IsLeap(y) == (y % 4 = 0 /\ y % 100 # 0) \/ y % 400 = 0

DaysInMonth(y, m) ==
    IF m = 2 THEN (IF IsLeap(y) THEN 29 ELSE 28)
    ELSE IF m \in {4, 6, 9, 11} THEN 30 ELSE 31

RECURSIVE DaysBeforeMonth(_, _)
DaysBeforeMonth(y, m) ==
    IF m = 1 THEN 0 ELSE DaysBeforeMonth(y, m - 1) + DaysInMonth(y, m - 1)

ToOrdinal(date) ==
    LET p == date[1] - 1
    IN  365 * p + p \div 4 - p \div 100 + p \div 400
          + DaysBeforeMonth(date[1], date[2]) + date[3]

\* pd.Grouper(key='Date', freq='ME'): the bin label of a date is the last
\* day of its calendar month.
MonthEndOf(date) == <<date[1], date[2], DaysInMonth(date[1], date[2])>>

NextMonthEnd(date) ==
    LET y == IF date[2] = 12 THEN date[1] + 1 ELSE date[1]
        m == IF date[2] = 12 THEN 1 ELSE date[2] + 1
    IN  <<y, m, DaysInMonth(y, m)>>

\* The first month-end on or after a date (where a 'ME' range starts).
RollToMonthEnd(date) == MonthEndOf(date)

\* pd.date_range(start, end, freq='ME'): every month-end t, start <= t <= end.
RECURSIVE MonthEndsBefore(_, _)
MonthEndsBefore(t, end) ==
    IF ToOrdinal(t) >= ToOrdinal(end) THEN <<>>
    ELSE <<t>> \o MonthEndsBefore(NextMonthEnd(t), end)

\* The range without its end point (inclusive='left').
date_range_open(start, end) == MonthEndsBefore(MonthEndOf(start), end)

RECURSIVE MonthEndsFrom(_, _)
MonthEndsFrom(t, end) ==
    IF ToOrdinal(t) > ToOrdinal(end) THEN <<>>
    ELSE <<t>> \o MonthEndsFrom(NextMonthEnd(t), end)

date_range(start, end) == MonthEndsFrom(RollToMonthEnd(start), end)

(***************************************************************************)
(* Sequences of rationals.                                                 *)
(***************************************************************************)
RECURSIVE RSum(_)
RSum(s) == IF s = <<>> THEN RInt(0) ELSE RAdd(Head(s), RSum(Tail(s)))

RECURSIVE Insert(_, _)
Insert(v, s) ==
    IF s = <<>> THEN <<v>>
    ELSE IF RLeq(v, Head(s)) THEN <<v>> \o s
    ELSE <<Head(s)>> \o Insert(v, Tail(s))

RECURSIVE Sort(_)
Sort(s) == IF s = <<>> THEN <<>> ELSE Insert(Head(s), Sort(Tail(s)))

NotNaN(s) == SelectSeq(s, LAMBDA v : v # NaN)

\* GroupBy.mean(): NaN cells are skipped; NaN when nothing is left.
Mean(s) ==
    LET t == NotNaN(s)
    IN  IF t = <<>> THEN NaN ELSE RDiv(RSum(t), RInt(Len(t)))

\* GroupBy.median() / np.median: NaN cells are skipped; the middle value, or
\* the mean of the two middle values; NaN when nothing is left.
Median(s) ==
    LET t == Sort(NotNaN(s))
        n == Len(t)
    IN  IF n = 0 THEN NaN
        ELSE IF n % 2 = 1 THEN t[(n + 1) \div 2]
        ELSE RDiv(RAdd(t[n \div 2], t[n \div 2 + 1]), RInt(2))

(***************************************************************************)
(* A station table (pd.read_csv) is [cols, rows]: the header's column      *)
(* names and the rows, each a function from the columns to a cell.  A      *)
(* FDT_DATE_TIME cell is the tuple of integer fields of its text: the      *)
(* format '%m/%d/%y %H:%M' wants exactly <<month, day, yy, hour, minute>>  *)
(* ("6/30/94 11:00" is <<6, 30, 94, 11, 0>>); any other text has another   *)
(* shape.                                                                  *)
(***************************************************************************)
variable_col == "FDT_FIELD_PH"

\* '%y' of strptime: 69..99 are 1969..1999, 0..68 are 2000..2068.
TwoDigitYear(yy) == IF yy >= 69 THEN 1900 + yy ELSE 2000 + yy

\* pd.to_datetime(col, format='%m/%d/%y %H:%M', errors='coerce').dt.normalize()
\* on one cell: NaT for a missing cell or a text that is no valid date-time
\* of that format, else the date with the time of day dropped.
to_datetime(cell) ==
    IF Len(cell) # 5 THEN NaN
    ELSE LET mo == cell[1]  dy == cell[2]  yy == cell[3]
             hh == cell[4]  mn == cell[5]
             y  == TwoDigitYear(yy)
         IN  IF /\ mo \in 1..12 /\ yy \in 0..99
                /\ dy >= 1 /\ dy <= DaysInMonth(y, mo)
                /\ hh \in 0..23 /\ mn \in 0..59
             THEN <<y, mo, dy>>
             ELSE NaN

\* df['Date'] = ... : the frame with the parsed Date column added.
WithDate(rows) ==
    [i \in 1..Len(rows) |->
        [c \in DOMAIN rows[i] \cup {"Date"} |->
            IF c = "Date" THEN to_datetime(rows[i]["FDT_DATE_TIME"])
            ELSE rows[i][c]]]

\* The date with a given day number (the inverse of ToOrdinal).
FromOrdinal(n) ==
    LET y == CHOOSE yy \in (n \div 366)..(n \div 365 + 1) :
                 /\ ToOrdinal(<<yy, 1, 1>>) <= n
                 /\ n < ToOrdinal(<<yy + 1, 1, 1>>)
        m == CHOOSE mm \in 1..12 :
                 /\ ToOrdinal(<<y, mm, 1>>) <= n
                 /\ n <= ToOrdinal(<<y, mm, DaysInMonth(y, mm)>>)
    IN  <<y, m, n - ToOrdinal(<<y, m, 1>>) + 1>>

\* get_trend.py: pd.to_datetime(col, unit='D', origin='1899-12-30') on one
\* cell, an Excel serial date (a rational number of days; its fraction is
\* the time of day, which plays no part in the monthly binning): NaT for
\* a missing cell, else the day that many whole days after the origin.
excel_to_datetime(cell) ==
    IF cell = NaN THEN NaN
    ELSE LET whole == IF cell[1] >= 0 THEN cell[1] \div cell[2]
                      ELSE -((-cell[1] + cell[2] - 1) \div cell[2])
         IN  FromOrdinal(ToOrdinal(<<1899, 12, 30>>) + whole)

WithExcelDate(rows) ==
    [i \in 1..Len(rows) |->
        [c \in DOMAIN rows[i] \cup {"Date"} |->
            IF c = "Date" THEN excel_to_datetime(rows[i]["FDT_DATE_TIME"])
            ELSE rows[i][c]]]

\* df.dropna(subset=...): the rows with no missing cell in the subset.
dropna(rows, subset) ==
    SelectSeq(rows, LAMBDA r : \A c \in subset : r[c] # NaN)

\* Banding with the boundary on the wrong side (depth < 1).
Depth_band_exclusive(depth) ==
    IF depth # NaN /\ RLess(depth, RInt(10)) THEN "0-1 m" ELSE ">1 m"

\* np.where(df['FDT_DEPTH'] <= 1, '0-1 m', '>1 m'); a NaN compares False.
\* Depths are in tenths, so the threshold 1 is 10.
Depth_band(depth) ==
    IF depth # NaN /\ RLeq(depth, RInt(10)) THEN "0-1 m" ELSE ">1 m"

\* df['Depth_band'] = ... : the frame with the band column added.
WithBand(rows) ==
    [i \in 1..Len(rows) |->
        [c \in DOMAIN rows[i] \cup {"Depth_band"} |->
            IF c = "Depth_band" THEN Depth_band(rows[i]["FDT_DEPTH"])
            ELSE rows[i][c]]]

Bands == <<"0-1 m", ">1 m">>

(***************************************************************************)
(* df.groupby(['Depth_band', pd.Grouper(key='Date', freq='ME')])[col]      *)
(*   .mean() / .median(), then monthly[monthly['Depth_band'] == band]      *)
(*   .set_index('Date')[col]: the band's Monthly Aggregate Series, a       *)
(* function from the month-ends that have rows of the band to the          *)
(* aggregate of their values.  Rows with a NaT key fall in no group.       *)
(***************************************************************************)
GroupValues(rows, band, me) ==
    LET g == SelectSeq(rows, LAMBDA r : /\ r["Depth_band"] = band
                                        /\ r["Date"] # NaN
                                        /\ MonthEndOf(r["Date"]) = me)
    IN  [i \in 1..Len(g) |-> g[i][variable_col]]

MonthlySeries(rows, band, agg) ==
    LET keys == {MonthEndOf(rows[i]["Date"]) :
                    i \in {j \in 1..Len(rows) : /\ rows[j]["Depth_band"] = band
                                                /\ rows[j]["Date"] # NaN}}
    IN  [me \in keys |->
            IF agg = "mean" THEN Mean(GroupValues(rows, band, me))
            ELSE Median(GroupValues(rows, band, me))]

MinDate(S) == CHOOSE d \in S : \A e \in S : ToOrdinal(d) <= ToOrdinal(e)
MaxDate(S) == CHOOSE d \in S : \A e \in S : ToOrdinal(e) <= ToOrdinal(d)

\* get_trend.py: df_clean.groupby('Depth_cat')[col].resample('M').mean(),
\* then monthly[monthly['Depth_cat'] == cat].set_index('Date')[col]: one
\* entry for every month-end from the band's first month to its last, NaN
\* for a month with no row.
ResampledSeries(rows, band) ==
    LET pop == MonthlySeries(rows, band, "mean")
    IN  IF DOMAIN pop = {} THEN pop
        ELSE LET idx == date_range(MinDate(DOMAIN pop), MaxDate(DOMAIN pop))
             IN  [me \in {idx[i] : i \in 1..Len(idx)} |->
                     IF me \in DOMAIN pop THEN pop[me] ELSE NaN]

\* s.reindex(idx): the value at each label of idx, NaN where s has none.
reindex(s, idx) ==
    [i \in 1..Len(idx) |-> IF idx[i] \in DOMAIN s THEN s[idx[i]] ELSE NaN]

\* Series.interpolate(method='time'): a NaN between two valid values gets
\* the linear interpolation over elapsed time; NaNs after the last valid
\* value repeat it; NaNs before the first valid value stay.
interpolate(idx, vals) ==
    [i \in 1..Len(vals) |->
        IF vals[i] # NaN THEN vals[i]
        ELSE LET before == {j \in 1..(i - 1) : vals[j] # NaN}
                 after  == {j \in (i + 1)..Len(vals) : vals[j] # NaN}
             IN  IF before = {} THEN NaN
                 ELSE LET a == CHOOSE j \in before : \A k \in before : k <= j
                      IN  IF after = {} THEN vals[a]
                          ELSE LET b  == CHOOSE j \in after : \A k \in after : j <= k
                                   ta == ToOrdinal(idx[a])
                                   tb == ToOrdinal(idx[b])
                                   t  == ToOrdinal(idx[i])
                               IN  RAdd(vals[a],
                                        RDiv(RMul(RSub(vals[b], vals[a]), RInt(t - ta)),
                                             RInt(tb - ta)))]

\* s = sub.set_index('Date')[col]; idx = pd.date_range(min, max, freq='ME');
\* s = s.reindex(idx).interpolate(method='time'): the Interpolated Series.
InterpolatedSeries(s) ==
    LET idx == date_range(MinDate(DOMAIN s), MaxDate(DOMAIN s))
    IN  [index |-> idx, values |-> interpolate(idx, reindex(s, idx))]

(***************************************************************************)
(* scipy.stats.theilslopes(y, x, 0.95): the median of the slopes           *)
(* (y[j] - y[i]) / (x[j] - x[i]) over all pairs with x[j] > x[i].  With    *)
(* fewer than two points there is no pair: scipy warns and the median of   *)
(* nothing is NaN (no exception).  A NaN among the y makes the median NaN. *)
(* Only the slope is modelled: the intercept and the confidence bounds     *)
(* are computed from it and feed the plot and the printout alone.          *)
(***************************************************************************)
PairSlopes(y, x) ==
    LET pairs == {pr \in (1..Len(x)) \X (1..Len(x)) : x[pr[1]] - x[pr[2]] > 0}
        RECURSIVE AsSeq(_)
        AsSeq(S) == IF S = {} THEN <<>>
                    ELSE LET pr == CHOOSE q \in S : TRUE
                         IN  <<RDiv(RSub(y[pr[1]], y[pr[2]]),
                                    RInt(x[pr[1]] - x[pr[2]]))>> \o AsSeq(S \ {pr})
    IN  AsSeq(pairs)

theilslopes(y, x) ==
    IF \E i \in 1..Len(y) : y[i] = NaN THEN NaN
    ELSE Median(PairSlopes(y, x))

\* The daily slope left as it is (not annualised).
SlopePerDay(slope) == slope

\* slope_yr = slope * 365
SlopePerYear(slope) == IF slope = NaN THEN NaN ELSE RMul(slope, RInt(365))

(***************************************************************************)
(* scipy.stats.kendalltau(np.arange(len(y)), y): tau-b and its two-sided   *)
(* p-value.  x has no ties.  The result is [tau, method, p, z2]:           *)
(*   tau    NaN, or <<c, q>> standing for c / sqrt(q)                      *)
(*          (c = concordant - discordant, q = tot * (tot - ytie));         *)
(*   method "nan" (every pair tied, or no pair, or a NaN in y),            *)
(*          "exact" (no ties: p is the exact permutation probability) or   *)
(*          "asymptotic" (ties: p = erfc(|z| / sqrt 2), kept as z2 = z^2). *)
(***************************************************************************)
RECURSIVE Factorial(_)
Factorial(n) == IF n <= 1 THEN 1 ELSE n * Factorial(n - 1)

\* The number of permutations of n items with exactly k inversions.
RECURSIVE Inversions(_, _)
Inversions(n, k) ==
    IF k < 0 THEN 0
    ELSE IF n <= 1 THEN (IF k = 0 THEN 1 ELSE 0)
    ELSE LET RECURSIVE Acc(_)
             Acc(j) == IF j < 0 THEN 0 ELSE Inversions(n - 1, k - j) + Acc(j - 1)
         IN  Acc(IF k < n - 1 THEN k ELSE n - 1)

RECURSIVE CumInversions(_, _)
CumInversions(n, c) ==
    IF c < 0 THEN 0 ELSE Inversions(n, c) + CumInversions(n, c - 1)

\* The one-sided exact probability (half the two-sided one).
kendall_p_one_sided(n, c0) ==
    LET tot == (n * (n - 1)) \div 2
        c   == IF c0 < tot - c0 THEN c0 ELSE tot - c0
    IN  Rat(CumInversions(n, c), Factorial(n))

\* mstats_basic._kendall_p_exact(n, c, 'two-sided')
kendall_p_exact(n, c0) ==
    LET tot == (n * (n - 1)) \div 2
        c   == IF c0 < tot - c0 THEN c0 ELSE tot - c0
    IN  IF n = 1 \/ n = 2 THEN RInt(1)
        ELSE IF c = 0 THEN Rat(2, Factorial(n))
        ELSE IF c = 1 THEN Rat(2, Factorial(n - 1))
        ELSE IF 4 * c = n * (n - 1) THEN RInt(1)
        ELSE Rat(2 * CumInversions(n, c), Factorial(n))

kendalltau(y) ==
    LET n     == Len(y)
        tot   == (n * (n - 1)) \div 2
        pairs == {pr \in (1..n) \X (1..n) : pr[1] < pr[2]}
        dis   == Cardinality({pr \in pairs : RLess(y[pr[2]], y[pr[1]])})
        ytie  == Cardinality({pr \in pairs : y[pr[1]] = y[pr[2]]})
        cmd   == tot - ytie - 2 * dis
        \* sum of t (t - 1) (2 t + 5) over the groups of tied y values
        y1    == LET vals == {y[i] : i \in 1..n}
                     cnt(v) == Cardinality({i \in 1..n : y[i] = v})
                     RECURSIVE Sum(_)
                     Sum(S) == IF S = {} THEN 0
                               ELSE LET v == CHOOSE w \in S : TRUE
                                    IN  cnt(v) * (cnt(v) - 1) * (2 * cnt(v) + 5)
                                          + Sum(S \ {v})
                 IN  Sum(vals)
        nan   == [tau |-> NaN, method |-> "nan", p |-> NaN, z2 |-> NaN]
    IN  IF n = 0 \/ (\E i \in 1..n : y[i] = NaN) THEN nan
        ELSE IF ytie = tot THEN nan
        ELSE IF ytie = 0
             THEN [tau |-> <<cmd, tot * tot>>, method |-> "exact",
                   p |-> kendall_p_exact(n, tot - dis), z2 |-> NaN]
             ELSE [tau |-> <<cmd, tot * (tot - ytie)>>, method |-> "asymptotic",
                   p |-> NaN,
                   z2 |-> Rat(18 * cmd * cmd, n * (n - 1) * (2 * n + 5) - y1)]

\* pval < 0.05.  A NaN compares False.  For the normal approximation,
\* erfc(|z| / sqrt 2) < 0.05 exactly when |z| > 1.959964, that is
\* z^2 > 3.841459; the model compares z^2 with 38415/10000, which decides
\* the same way for every z^2 outside (3.8414, 3.8415].
PvalBelow05(kt) ==
    CASE kt.method = "nan"        -> FALSE
      [] kt.method = "exact"      -> RLess(kt.p, Rat(5, 100))
      [] kt.method = "asymptotic" -> RLess(Rat(38415, 10000), kt.z2)

\* signif = 'sig' if pval < 0.05 else 'ns'
Signif(kt) == IF PvalBelow05(kt) THEN "sig" ELSE "ns"

(***************************************************************************)
(* One pass of the band loop body (get_trend_allstation.py lines 44-67,    *)
(* get_trend_allstation_median.py lines 51-71) on the band's Monthly       *)
(* Aggregate Series sub, which is not empty.                               *)
(***************************************************************************)
Ordinals(idx) == [i \in 1..Len(idx) |-> ToOrdinal(idx[i])]

BandTrend(band, sub) ==
    LET s     == InterpolatedSeries(sub)
        slope == theilslopes(s.values, Ordinals(s.index))
        kt    == kendalltau(s.values)
    IN  [band       |-> band,
         months     |-> Cardinality(DOMAIN sub),
         start_year |-> MinDate(DOMAIN sub)[1],
         end_year   |-> MaxDate(DOMAIN sub)[1],
         series     |-> s,
         slope_yr   |-> SlopePerYear(slope),
         tau        |-> kt.tau,
         kendall    |-> kt,
         signif     |-> Signif(kt)]

\* for band in ['0-1 m', '>1 m']: ... if sub.empty: continue ...
\* The trends of the bands that have at least one aggregated month, in the
\* order of the loop.
BandHasData(rows, band, agg) == DOMAIN MonthlySeries(rows, band, agg) # {}

BandLoop(rows, agg) ==
    LET one(b) == IF BandHasData(rows, b, agg)
                  THEN <<BandTrend(b, MonthlySeries(rows, b, agg))>>
                  ELSE <<>>
    IN  one(Bands[1]) \o one(Bands[2])

\* The columns the script reads, in the order it reads them: the first one
\* the table lacks raises KeyError (df['FDT_DATE_TIME'] on line 20/22, then
\* dropna(subset=[...]) on line 25/28).
Required == <<"FDT_DATE_TIME", "FDT_DEPTH", variable_col>>

MissingColumns(table) == {c \in {Required[i] : i \in 1..3} : c \notin table.cols}

(***************************************************************************)
(* Inputs.  The station tables the runs are checked on.                    *)
(***************************************************************************)
MaxStations == 2     \* longest list of station files
MaxMonths   == 5     \* longest constant-step series
MaxStep     == 2     \* largest constant step per month, in tenths

AllCols == {"FDT_DATE_TIME", "FDT_DEPTH", variable_col}

Row(dt, depth, val) ==
    [c \in AllCols |-> CASE c = "FDT_DATE_TIME" -> dt
                         [] c = "FDT_DEPTH"     -> depth
                         [] OTHER               -> val]

\* Four clean observations: shallow in January (depth exactly 1.0) and in
\* March (so February is a gap), deep in January and in February.
CleanRows ==
    << Row(<<1, 31, 94, 11, 0>>, RInt(10), RInt(70)),
       Row(<<3, 15, 94,  9, 30>>, RInt(5),  RInt(76)),
       Row(<<1, 10, 94, 11, 0>>, RInt(11), RInt(80)),
       Row(<<2, 20, 94, 11, 0>>, RInt(20), RInt(84)) >>

\* Rows that cleaning discards: no timestamp, a timestamp that is no date
\* (February 30), a timestamp in another format, no depth, no value.
DirtyRows ==
    { Row(NaN,                  RInt(5), RInt(70)),
      Row(<<2, 30, 94, 11, 0>>, RInt(5), RInt(70)),
      Row(<<1994, 6, 30>>,      RInt(5), RInt(70)),
      Row(<<6, 30, 94, 11, 0>>, NaN,     RInt(70)),
      Row(<<6, 30, 94, 11, 0>>, RInt(5), NaN) }

\* Two more shallow observations in January: with the first clean row the
\* month has the values 7.0, 7.3, 7.9 (mean 7.4, median 7.3).
MoreJanuary ==
    << Row(<<1, 5, 94, 8, 15>>,  RInt(3), RInt(73)),
       Row(<<1, 20, 94, 14, 0>>, RInt(0), RInt(79)) >>

RECURSIVE Pick(_, _)
Pick(rows, I) ==
    IF rows = <<>> THEN <<>>
    ELSE (IF Len(rows) \in I THEN Pick(SubSeq(rows, 1, Len(rows) - 1), I)
                                    \o <<rows[Len(rows)]>>
          ELSE Pick(SubSeq(rows, 1, Len(rows) - 1), I))

Full(rows) == [cols |-> AllCols, rows |-> rows]

\* A table whose header lacks column c.  The table without the value
\* column has another numeric column, FDT_TEMP_CELCIUS, in its place.
Without(c) ==
    LET cols == (AllCols \ {c}) \cup
                (IF c = variable_col THEN {"FDT_TEMP_CELCIUS"} ELSE {})
    IN  [cols |-> cols,
         rows |-> [i \in 1..2 |->
                     [k \in cols |-> IF k = "FDT_TEMP_CELCIUS" THEN RInt(150)
                                     ELSE CleanRows[i][k]]]]

GeneralTables ==
    {Full(Pick(CleanRows, I)) : I \in SUBSET (1..4)}
      \cup {Full(<<e>> \o Pick(CleanRows, I)) : e \in DirtyRows, I \in {{}, {1, 2}}}
      \cup {Full(Pick(CleanRows, I) \o MoreJanuary) : I \in {{1, 2}, {1, 2, 3, 4}}}
      \cup {Without(c) : c \in AllCols}

\* One observation on the 15th of each of n consecutive months from month
\* m of year 19yy, the value rising by step from 7.0: the monthly
\* aggregates are 70, 70 + step, ... on consecutive month-ends.
LinearTable(yy, m, n, step, depth) ==
    Full([i \in 1..n |->
            LET k == (m - 1) + (i - 1)
            IN  Row(<<(k % 12) + 1, 15, yy + k \div 12, 11, 0>>,
                    RInt(depth), RInt(70 + step * (i - 1)))])

LinearTables ==
    {LinearTable(yy, m, n, step, depth) :
        yy \in {95, 96}, m \in 1..12, n \in 2..MaxMonths,
        step \in 1..MaxStep, depth \in {10, 11}}

FileLists ==
    UNION {[1..n -> GeneralTables] : n \in 0..MaxStations}
      \cup {<<t>> : t \in LinearTables}

\* station1.xlsx of get_trend.py: the same observations with the timestamp
\* as an Excel serial date (whole days, or with half a day for noon).
ExcelSerial(date, half) ==
    Rat(2 * (ToOrdinal(date) - ToOrdinal(<<1899, 12, 30>>)) + half, 2)

ExcelRows ==
    << Row(ExcelSerial(<<1994, 1, 31>>, 1), RInt(10), RInt(70)),
       Row(ExcelSerial(<<1994, 3, 15>>, 0), RInt(5),  RInt(76)),
       Row(ExcelSerial(<<1994, 1, 10>>, 1), RInt(11), RInt(80)),
       Row(ExcelSerial(<<1994, 2, 20>>, 0), RInt(20), RInt(84)) >>

ExcelDirtyRows ==
    { Row(ExcelSerial(<<1994, 6, 30>>, 1), NaN,     RInt(70)),
      Row(ExcelSerial(<<1994, 6, 30>>, 1), RInt(5), NaN) }

ExcelWithout(c) ==
    LET cols == AllCols \ {c}
    IN  [cols |-> cols,
         rows |-> [i \in 1..2 |-> [k \in cols |-> ExcelRows[i][k]]]]

ExcelTables ==
    {Full(Pick(ExcelRows, I)) : I \in SUBSET (1..4)}
      \cup {Full(<<e>> \o Pick(ExcelRows, I)) :
                e \in ExcelDirtyRows, I \in {{}, {1, 2, 3, 4}}}
      \cup {ExcelWithout(c) : c \in AllCols}

(***************************************************************************)
(* split_csv.py.  The master table is its FDT_STA_ID column: a station ID  *)
(* is the tuple of its characters, an empty cell is NaN.  A master row is  *)
(* known by its position.                                                  *)
(***************************************************************************)
MaxMaster == 3      \* most rows of a master table

\* The characters of the IDs, in code point order.
Alphabet == <<" ", "/", "A", "B", "_">>

StationIds ==
    { <<"A">>, <<"B">>, <<"A", "/", "B">>, <<"A", "_", "B">>,
      <<"A", " ", "B">>, <<" ", "A">>, NaN }

Masters == UNION {[1..n -> StationIds] : n \in 1..MaxMaster}

CodePoint(ch) == CHOOSE k \in 1..Len(Alphabet) : Alphabet[k] = ch

\* a < b for strings (the order groupby sorts its keys in)
RECURSIVE StrLess(_, _)
StrLess(a, b) ==
    IF b = <<>> THEN FALSE
    ELSE IF a = <<>> THEN TRUE
    ELSE IF Head(a) = Head(b) THEN StrLess(Tail(a), Tail(b))
    ELSE CodePoint(Head(a)) < CodePoint(Head(b))

\* str.strip(): without the leading and trailing blanks
RECURSIVE LStrip(_)
LStrip(str) ==
    IF str # <<>> /\ Head(str) = " " THEN LStrip(Tail(str)) ELSE str

RECURSIVE RStrip(_)
RStrip(str) ==
    IF str # <<>> /\ str[Len(str)] = " "
    THEN RStrip(SubSeq(str, 1, Len(str) - 1)) ELSE str

Strip(str) == RStrip(LStrip(str))

\* str.replace(old, new) for single characters
Replace(str, old, new) ==
    [i \in 1..Len(str) |-> IF str[i] = old THEN new ELSE str[i]]

\* safe_id = str(sta_id).strip().replace('/', '_').replace(' ', '_')
safe_id(sta_id) == Replace(Replace(Strip(sta_id), "/", "_"), " ", "_")

\* df.groupby('FDT_STA_ID'): the distinct keys in sorted order; rows whose
\* key is NaN belong to no group.
GroupKeys(rows) ==
    LET keys == {rows[i] : i \in 1..Len(rows)} \ {NaN}
        RECURSIVE Sorted(_)
        Sorted(S) == IF S = {} THEN <<>>
                     ELSE LET k == CHOOSE x \in S : \A z \in S \ {x} : StrLess(x, z)
                          IN  <<k>> \o Sorted(S \ {k})
    IN  Sorted(keys)

\* The rows (positions in the master) of one group.
Group(rows, key) == {i \in 1..Len(rows) : rows[i] = key}

(***************************************************************************)
(* State.                                                                  *)
(*   script   which program runs: "mean" is get_trend_allstation.py,       *)
(*            "median" is get_trend_allstation_median.py, "single" is      *)
(*            get_trend.py (one spreadsheet, station 1), "split" is        *)
(*            split_csv.py                                                 *)
(*   files    glob.glob(input_dir/*.csv): the station tables; station_id   *)
(*            (the file's base name, distinct per file) is the position    *)
(*   pos      the file (split_csv.py: the group) the for loop is at        *)
(*   pc       "loop", "done" (normal end) or "crashed" (uncaught exception)*)
(*   df       the data frame of the station last read                      *)
(*   results  the Trend Results of the station last analysed, one per band *)
(*            that went through the loop body                              *)
(*   summary  the list `summary` of get_trend_allstation.main              *)
(*   written  how many times the summary CSV has been written              *)
(*   log      the lines printed                                            *)
(*   plots    the figures drawn, with the lines in each                    *)
(*   error    the exception that ended the run, if any                     *)
(*   master   split_csv.py: the master table                               *)
(*   outdir   split_csv.py: output_dir, file name -> rows in the file      *)
(*   counts   split_csv.py: the list `summary` of (safe_id, count)         *)
(***************************************************************************)
VARIABLES script, files, pos, pc, df, results, summary, written, log, plots,
          error, master, outdir, counts

trendVars == <<files, df, results, summary, written, log, plots, error>>
splitVars == <<master, outdir, counts>>
vars == <<script, pos, pc, trendVars, splitVars>>

NoError == [type |-> "none", key |-> "", station |-> 0]

Init ==
    /\ \/ /\ script \in {"mean", "median"}
          /\ files \in FileLists
          /\ master = <<>>
       \/ /\ script = "single"
          /\ files \in {<<t>> : t \in ExcelTables}
          /\ master = <<>>
       \/ /\ script = "split"
          /\ files = <<>>
          /\ master \in Masters
    /\ pos = 1
    /\ pc = "loop"
    /\ df = <<>>
    /\ results = <<>>
    /\ summary = <<>>
    /\ written = 0
    /\ log = <<>>
    /\ plots = <<>>
    /\ error = NoError
    /\ outdir = <<>>
    /\ counts = <<>>

\* Cleaning that forgets the value column.
CleanDateDepth(rows) == dropna(rows, {"Date", "FDT_DEPTH"})

\* df.dropna(subset=['Date', 'FDT_DEPTH', variable_col])
Clean(rows) == dropna(rows, {"Date", "FDT_DEPTH", variable_col})

\* The append placed after the band loop: only the last band is recorded.
SummaryRowLastBand(station, trends) ==
    IF trends = <<>> THEN <<>>
    ELSE << [station_id |-> station,
             depth_band |-> trends[Len(trends)].band,
             start_year |-> trends[Len(trends)].start_year,
             end_year   |-> trends[Len(trends)].end_year,
             months     |-> trends[Len(trends)].months,
             sen_slope_per_year |-> trends[Len(trends)].slope_yr,
             kendall_sig        |-> trends[Len(trends)].signif] >>

\* summary.append({...}) for each band that went through the loop body.
SummaryRows(station, trends) ==
    [i \in 1..Len(trends) |->
        [station_id |-> station,
         depth_band |-> trends[i].band,
         start_year |-> trends[i].start_year,
         end_year   |-> trends[i].end_year,
         months     |-> trends[i].months,
         sen_slope_per_year |-> trends[i].slope_yr,
         kendall_sig        |-> trends[i].signif]]

\* ax.plot(s.index, s, ...) and the trend line for each band of one figure.
Figure(station, trends) ==
    [station_id |-> station,
     lines |-> [i \in 1..Len(trends) |->
                  [band |-> trends[i].band, series |-> trends[i].series]]]

KeyError(station, col) == [type |-> "KeyError", key |-> col, station |-> station]

\* The first required column the table lacks.
FirstMissing(table) ==
    Required[CHOOSE i \in 1..3 : /\ Required[i] \notin table.cols
                                 /\ \A j \in 1..(i - 1) : Required[j] \in table.cols]

\* An uncaught exception while reading station pos: the run ends there.
Crash(exc, frame) ==
    /\ pc' = "crashed"
    /\ error' = exc
    /\ df' = frame
    /\ UNCHANGED <<script, files, pos, results, summary, written, log, plots>>

(***************************************************************************)
(* get_trend_allstation.main: one iteration of `for csv_path in ...`.      *)
(***************************************************************************)
MainStation ==
    /\ script = "mean" /\ pc = "loop" /\ pos <= Len(files)
    /\ UNCHANGED splitVars
    /\ LET table == files[pos] IN
       IF MissingColumns(table) # {}
       THEN \* KeyError: nothing catches it, the run ends with a traceback
            Crash(KeyError(pos, FirstMissing(table)),
                  IF "FDT_DATE_TIME" \in table.cols
                  THEN WithDate(table.rows) ELSE table.rows)
       ELSE LET clean == Clean(WithDate(table.rows)) IN
            IF clean = <<>>
            THEN \* print(f"[{station_id}] no valid ... data, skipping."); continue
                 /\ log' = Append(log, [kind |-> "no_data", station |-> pos])
                 /\ df' = clean
                 /\ pos' = pos + 1
                 /\ UNCHANGED <<script, files, pc, results, summary, written,
                                plots, error>>
            ELSE LET banded == WithBand(clean)
                     trends == BandLoop(banded, "mean")
                 IN  /\ df' = banded
                     /\ results' = trends
                     /\ summary' = summary \o SummaryRows(pos, trends)
                     /\ plots' = Append(plots, Figure(pos, trends))
                     /\ pos' = pos + 1
                     /\ UNCHANGED <<script, files, pc, written, log, error>>

\* After the loop: pd.DataFrame(summary).to_csv(summary_csv); print(...)
WriteSummary ==
    /\ script = "mean" /\ pc = "loop" /\ pos > Len(files)
    /\ written' = written + 1
    /\ log' = Append(log, [kind |-> "summary_written", station |-> 0])
    /\ pc' = "done"
    /\ UNCHANGED <<script, files, pos, df, results, summary, plots, error>>
    /\ UNCHANGED splitVars

(***************************************************************************)
(* get_trend_allstation_median.py: analyze_station(csv_file) for one file  *)
(* of the main loop.  It keeps no summary list; it prints the results.     *)
(***************************************************************************)
AnalyzeStation ==
    /\ script = "median" /\ pc = "loop" /\ pos <= Len(files)
    /\ UNCHANGED splitVars
    /\ LET table == files[pos] IN
       IF MissingColumns(table) # {}
       THEN Crash(KeyError(pos, FirstMissing(table)),
                  IF "FDT_DATE_TIME" \in table.cols
                  THEN WithDate(table.rows) ELSE table.rows)
       ELSE LET clean == Clean(WithDate(table.rows)) IN
            IF clean = <<>>
            THEN \* print(f"Station {station_id}: no valid records, skipping."); return
                 /\ log' = Append(log, [kind |-> "no_data", station |-> pos])
                 /\ df' = clean
                 /\ pos' = pos + 1
                 /\ UNCHANGED <<script, files, pc, results, summary, written,
                                plots, error>>
            ELSE LET banded == WithBand(clean)
                     trends == BandLoop(banded, "median")
                 IN  /\ df' = banded
                     /\ results' = trends
                     /\ log' = Append(log, [kind |-> "results", station |-> pos])
                     /\ plots' = Append(plots, Figure(pos, trends))
                     /\ pos' = pos + 1
                     /\ UNCHANGED <<script, files, pc, summary, written, error>>

\* The main loop has run over every file: the script ends.
MedianEnd ==
    /\ script = "median" /\ pc = "loop" /\ pos > Len(files)
    /\ pc' = "done"
    /\ UNCHANGED <<script, pos, trendVars, splitVars>>

(***************************************************************************)
(* get_trend.py: the whole script on its one spreadsheet.  It drops the    *)
(* rows without depth or value (not those without a date: the date cells   *)
(* of the inputs here are all filled), has no empty check, and runs the    *)
(* band loop on both bands: for a band without rows series.index.min() is  *)
(* NaT and pd.date_range raises ValueError.                                *)
(***************************************************************************)
SingleLoop(rows) ==
    [i \in 1..2 |-> BandTrend(Bands[i], ResampledSeries(rows, Bands[i]))]

GetTrend ==
    /\ script = "single" /\ pc = "loop" /\ pos <= Len(files)
    /\ UNCHANGED splitVars
    /\ LET table == files[pos] IN
       IF MissingColumns(table) # {}
       THEN Crash(KeyError(pos, FirstMissing(table)),
                  IF "FDT_DATE_TIME" \in table.cols
                  THEN WithExcelDate(table.rows) ELSE table.rows)
       ELSE LET banded == WithBand(dropna(WithExcelDate(table.rows),
                                          {"FDT_DEPTH", variable_col}))
            IN  IF \E i \in 1..2 : ~BandHasData(banded, Bands[i], "mean")
                THEN Crash([type |-> "ValueError", key |-> "date_range",
                            station |-> pos], banded)
                ELSE /\ df' = banded
                     /\ results' = SingleLoop(banded)
                     /\ log' = Append(log, [kind |-> "results", station |-> pos])
                     /\ plots' = Append(plots, Figure(pos, SingleLoop(banded)))
                     /\ pos' = pos + 1
                     /\ pc' = "done"
                     /\ UNCHANGED <<script, files, summary, written, error>>

(***************************************************************************)
(* split_csv.py: one iteration of `for sta_id, group in df.groupby(...)`,  *)
(* and the end of the script.  group.to_csv(out_path) replaces whatever    *)
(* file has that name.                                                     *)
(***************************************************************************)
WriteFile(dir, name, rows) ==
    [n \in DOMAIN dir \cup {name} |-> IF n = name THEN rows ELSE dir[n]]

SplitGroup ==
    /\ script = "split" /\ pc = "loop" /\ pos <= Len(GroupKeys(master))
    /\ LET sta_id == GroupKeys(master)[pos]
           group  == Group(master, sta_id)
       IN  /\ outdir' = WriteFile(outdir, safe_id(sta_id), group)
           /\ counts' = Append(counts, <<safe_id(sta_id), Cardinality(group)>>)
    /\ pos' = pos + 1
    /\ UNCHANGED <<script, pc, master, trendVars>>

SplitEnd ==
    /\ script = "split" /\ pc = "loop" /\ pos > Len(GroupKeys(master))
    /\ pc' = "done"
    /\ UNCHANGED <<script, pos, trendVars, splitVars>>

Next ==
    \/ MainStation
    \/ WriteSummary
    \/ AnalyzeStation
    \/ MedianEnd
    \/ GetTrend
    \/ SplitGroup
    \/ SplitEnd

Spec == Init /\ [][Next]_vars

(***************************************************************************)
(* What the claims speak of, said of the input tables themselves.          *)
(***************************************************************************)
MultiStation == script \in {"mean", "median"}

HasAllColumns(table) == \A i \in 1..3 : Required[i] \in table.cols

\* The calendar date of a row's timestamp, as the running script reads it.
RowDate(r) ==
    IF script = "single" THEN excel_to_datetime(r["FDT_DATE_TIME"])
    ELSE to_datetime(r["FDT_DATE_TIME"])

\* A row with a timestamp, a depth and a value: it survives cleaning.
Usable(r) == RowDate(r) # NaN /\ r["FDT_DEPTH"] # NaN /\ r[variable_col] # NaN

Shallow(depth) == depth[1] <= 10 * depth[2]      \* depth <= 1.0
Deep(depth)    == depth[1] >  10 * depth[2]      \* depth >  1.0

InBand(r, band) ==
    IF band = "0-1 m" THEN Shallow(r["FDT_DEPTH"]) ELSE Deep(r["FDT_DEPTH"])

\* The usable rows of a band, and the calendar months (year * 12 + month - 1)
\* that have one.
BandRows(table, band) ==
    {i \in 1..Len(table.rows) : Usable(table.rows[i]) /\ InBand(table.rows[i], band)}

MonthNo(date) == date[1] * 12 + date[2] - 1

QualifyingMonths(table, band) ==
    {MonthNo(RowDate(table.rows[i])) : i \in BandRows(table, band)}

AllRowsUnusable(table) == \A i \in 1..Len(table.rows) : ~Usable(table.rows[i])

OtherBand(band) == IF band = "0-1 m" THEN ">1 m" ELSE "0-1 m"

Figures == {plots[k] : k \in 1..Len(plots)}
Lines(f) == {f.lines[k] : k \in 1..Len(f.lines)}

Logged(kind, station) ==
    \E k \in 1..Len(log) : log[k].kind = kind /\ log[k].station = station

(***************************************************************************)
(* C1.  In a multi-station run no failing station (a required column       *)
(* missing, or no usable row) ends the run at that station: the run goes   *)
(* past it, having reported a diagnostic naming the station.               *)
(* Stated as the claim has it; the scripts catch no exception, so a table  *)
(* without a required column ends the run with KeyError.                   *)
(***************************************************************************)
C1_FailedStationDoesNotStopRun ==
    MultiStation =>
        \A i \in 1..Len(files) :
            (~HasAllColumns(files[i]) \/ AllRowsUnusable(files[i])) =>
                /\ ~(pc = "crashed" /\ pos = i)
                /\ pos > i => Logged("no_data", i) \/ Logged("error", i)

(***************************************************************************)
(* C2.  For a station where one band has exactly one qualifying month and  *)
(* the other band two or more, no Trend Result (no line in the station's   *)
(* figure) exists for the one-month band, and one exists for the other     *)
(* band.  Stated as the claim has it; the scripts fit the one-point series *)
(* all the same (slope NaN, flag 'ns') and record it.                      *)
(***************************************************************************)
C2_OneMonthBandHasNoTrendResult ==
    MultiStation =>
        \A f \in Figures : \A b \in {"0-1 m", ">1 m"} :
            LET table == files[f.station_id] IN
            ( /\ Cardinality(QualifyingMonths(table, b)) = 1
              /\ Cardinality(QualifyingMonths(table, OtherBand(b))) >= 2 ) =>
                /\ ~\E l \in Lines(f) : l.band = b
                /\ \E l \in Lines(f) : l.band = OtherBand(b)

(***************************************************************************)
(* C3.  A station table that lacks the date, the depth or the value column *)
(* makes the estimator fail with ConfigurationError.  Stated as the claim  *)
(* has it; the failure the scripts surface is pandas' KeyError.            *)
(***************************************************************************)
C3_MissingColumnIsConfigurationError ==
    (MultiStation /\ pc = "crashed" /\ ~HasAllColumns(files[pos])) =>
        error.type = "ConfigurationError"

(***************************************************************************)
(* C4.  Every observation of the cleaned frame carries exactly one of the  *)
(* two bands: '0-1 m' if and only if its depth is <= 1, '>1 m' if and only *)
(* if its depth is > 1 (so depth 1.0 is '0-1 m'), in all three scripts.    *)
(***************************************************************************)
Banded == {i \in 1..Len(df) : "Depth_band" \in DOMAIN df[i]}

C4_BandingPartition ==
    \A i \in Banded :
        LET d == df[i]["FDT_DEPTH"]
            b == df[i]["Depth_band"]
        IN  /\ b \in {"0-1 m", ">1 m"}
            /\ b = "0-1 m" <=> (d # NaN /\ Shallow(d))
            /\ b = ">1 m"  <=> (d # NaN /\ Deep(d))

\* A frame with an observation at depth exactly 1.0 in the shallow band and
\* a deeper one in the deep band.
C4_Witness ==
    /\ \E i \in Banded : df[i]["FDT_DEPTH"] = RInt(10) /\ df[i]["Depth_band"] = "0-1 m"
    /\ \E i \in Banded : df[i]["FDT_DEPTH"] = RInt(11) /\ df[i]["Depth_band"] = ">1 m"

(***************************************************************************)
(* C5, C6: runs on one station table whose band has one observation in     *)
(* each of n consecutive months, the values rising by a constant step.     *)
(***************************************************************************)
LinearRun == MultiStation /\ Len(files) = 1 /\ files[1] \in LinearTables

LinearDone == LinearRun /\ pos = 2

\* The step per month of the table, in tenths.
LinearStep == files[1].rows[2][variable_col][1] - files[1].rows[1][variable_col][1]

\* The scenario of C5: shallow monthly values 7.0, 7.2, 7.4, 7.6 on four
\* consecutive month-ends, no deep observation.
ScenarioTables == {LinearTable(yy, m, 4, 2, 10) : yy \in {95, 96}, m \in 1..12}

ScenarioDone == MultiStation /\ Len(files) = 1 /\ files[1] \in ScenarioTables /\ pos = 2

\* tau = c / sqrt(q) is 1.0
TauIsOne(tau) == tau # NaN /\ tau[1] > 0 /\ tau[1] * tau[1] = tau[2]

\* The slope per year is within 0.1 of 2.4 units (24 tenths).
SlopeAbout24(slope) ==
    slope # NaN /\ RLess(RInt(23), slope) /\ RLess(slope, RInt(25))

\* The mean script's summary table has one row per Trend Result, carrying
\* its flag.
ScenarioSummary(flag) ==
    script = "mean" =>
        /\ Len(summary) = 1
        /\ summary[1].depth_band = "0-1 m"
        /\ summary[1].kendall_sig = flag

(***************************************************************************)
(* C5 as stated: in the scenario the estimator returns exactly one Trend   *)
(* Result, for '0-1 m', with tau = 1.0, a p-value below 0.05 (flag 'sig')  *)
(* and a slope of about 2.4 units per year.                                *)
(***************************************************************************)
C5_ScenarioIsSignificant ==
    ScenarioDone =>
        /\ Len(results) = 1
        /\ results[1].band = "0-1 m"
        /\ TauIsOne(results[1].tau)
        /\ PvalBelow05(results[1].kendall)
        /\ results[1].signif = "sig"
        /\ ScenarioSummary("sig")
        /\ SlopeAbout24(results[1].slope_yr)

(***************************************************************************)
(* C5 amended: in the scenario the estimator returns exactly one Trend     *)
(* Result, for '0-1 m', with tau = 1.0 and a slope within 0.1 of 2.4 units *)
(* per year; the two-sided p-value is the exact 2/4! = 1/12 (about 0.083), *)
(* which is not below 0.05, so the significance flag is 'ns'.              *)
(***************************************************************************)
C5_ScenarioTrend ==
    ScenarioDone =>
        /\ Len(results) = 1
        /\ results[1].band = "0-1 m"
        /\ TauIsOne(results[1].tau)
        /\ results[1].kendall.method = "exact"
        /\ results[1].kendall.p = <<1, 12>>
        /\ ~PvalBelow05(results[1].kendall)
        /\ results[1].signif = "ns"
        /\ ScenarioSummary("ns")
        /\ SlopeAbout24(results[1].slope_yr)

\* The scenario has run to its end in the mean script and left its one row.
C5_Witness ==
    /\ ScenarioDone /\ script = "mean" /\ pc = "done"
    /\ Len(summary) = 1 /\ Len(results) = 1
    /\ Len(results[1].series.values) = 4

(***************************************************************************)
(* C6 as stated: for a series on consecutive month-ends rising by a        *)
(* constant step per month, the fitted slope per year is exactly           *)
(* step * 12.                                                              *)
(***************************************************************************)
C6_SlopeIsExactlyTwelveSteps ==
    LinearDone =>
        \A k \in 1..Len(results) : results[k].slope_yr = RInt(12 * LinearStep)

(***************************************************************************)
(* C6 amended: for such a series the fitted slope per year is 365 times    *)
(* the median of the pairwise slopes k * step / (days between the two      *)
(* month-ends); months having 28 to 31 days, it lies between               *)
(* step * 365 / 31 and step * 365 / 28 (about 11.8 to 13.0 times the       *)
(* step), and need not be step * 12.                                       *)
(***************************************************************************)
C6_SlopeWithinCalendarBounds ==
    LinearDone =>
        /\ Len(results) = 1
        /\ results[1].slope_yr # NaN
        /\ RLeq(Rat(365 * LinearStep, 31), results[1].slope_yr)
        /\ RLeq(results[1].slope_yr, Rat(365 * LinearStep, 28))

\* A constant-step series of at least three months has been fitted, and
\* its slope per year is not step * 12.
C6_Witness ==
    /\ LinearDone /\ Len(results) = 1
    /\ Len(results[1].series.values) >= 3
    /\ results[1].slope_yr # RInt(12 * LinearStep)

(***************************************************************************)
(* C7.  Every Interpolated Series drawn (one per band with at least one    *)
(* aggregated month) has no missing value, its index is exactly the        *)
(* consecutive month-ends from the band's first populated month to its     *)
(* last, and every populated month keeps its aggregated value.             *)
(***************************************************************************)
MonthEndNo(mo) == <<mo \div 12, (mo % 12) + 1, DaysInMonth(mo \div 12, (mo % 12) + 1)>>

\* The aggregate of a band's usable values in one month, from the table.
AggregateOf(table, band, mo) ==
    LET I == {i \in BandRows(table, band) : MonthNo(RowDate(table.rows[i])) = mo}
        RECURSIVE Vals(_)
        Vals(S) == IF S = {} THEN <<>>
                   ELSE LET i == CHOOSE j \in S : TRUE
                        IN  <<table.rows[i][variable_col]>> \o Vals(S \ {i})
    IN  IF script = "median" THEN Median(Vals(I)) ELSE Mean(Vals(I))

C7_InterpolatedSeriesComplete ==
    \A f \in Figures : \A l \in Lines(f) :
        LET table == files[f.station_id]
            pop   == QualifyingMonths(table, l.band)
            first == CHOOSE a \in pop : \A b \in pop : a <= b
            last  == CHOOSE a \in pop : \A b \in pop : b <= a
            s     == l.series
        IN  /\ pop # {}
            /\ Len(s.index) = last - first + 1
            /\ Len(s.values) = last - first + 1
            /\ \A k \in 1..Len(s.index) :
                  /\ s.index[k] = MonthEndNo(first + k - 1)
                  /\ s.values[k] # NaN
                  /\ (first + k - 1) \in pop =>
                        s.values[k] = AggregateOf(table, l.band, first + k - 1)

\* A drawn series over three months of which the first aggregates three
\* observations and the middle one had none and was filled.
C7_Witness ==
    \E f \in Figures : \E l \in Lines(f) :
        /\ Cardinality(QualifyingMonths(files[f.station_id], l.band)) = 2
        /\ Cardinality(BandRows(files[f.station_id], l.band)) = 4
        /\ Len(l.series.values) = 3
        /\ l.series.values[2] # NaN

(***************************************************************************)
(* C8.  In get_trend_allstation.main the summary holds exactly one row for *)
(* each (station, band) pair that went through the trend fit, that is each *)
(* processed station's band with at least one aggregated month, and none   *)
(* for any other pair; rows are only ever appended; the table is written   *)
(* once, after the last station, and a run that ends normally has written  *)
(* it.                                                                     *)
(***************************************************************************)
RowsFor(i, band) ==
    Cardinality({k \in 1..Len(summary) :
                    summary[k].station_id = i /\ summary[k].depth_band = band})

LinesFor(i, band) ==
    Cardinality({l \in UNION {{<<f.station_id, f.lines[k].band, k>> :
                                  k \in 1..Len(f.lines)} : f \in Figures} :
                    l[1] = i /\ l[2] = band})

C8_RowsMatchTrends ==
    script = "mean" =>
        /\ written <= 1
        /\ written = 1 => pos > Len(files)
        /\ pc = "done" => written = 1
        /\ \A i \in 1..Len(files) : \A b \in {"0-1 m", ">1 m"} :
              /\ RowsFor(i, b) = LinesFor(i, b)
              /\ RowsFor(i, b) =
                    IF /\ i < pos
                       /\ HasAllColumns(files[i])
                       /\ QualifyingMonths(files[i], b) # {}
                    THEN 1 ELSE 0

C8_AppendOnlyWrittenAtEnd ==
    /\ Len(summary') >= Len(summary)
    /\ SubSeq(summary', 1, Len(summary)) = summary
    /\ written' # written =>
          /\ written' = written + 1
          /\ pos > Len(files)
          /\ summary' = summary

C8_SummaryOneRowPerTrend ==
    /\ []C8_RowsMatchTrends
    /\ [][C8_AppendOnlyWrittenAtEnd]_vars

\* A two-station run of the mean script has ended: one station had both
\* bands, the other had no data, and the summary has been written.
C8_Witness ==
    /\ script = "mean" /\ pc = "done" /\ written = 1 /\ Len(files) = 2
    /\ \E i \in 1..2 : RowsFor(i, "0-1 m") = 1 /\ RowsFor(i, ">1 m") = 1
    /\ \E i \in 1..2 : Logged("no_data", i)

(***************************************************************************)
(* C9.  A station table that has the columns and in which every row lacks  *)
(* a parseable timestamp, a depth or a value is processed without error:   *)
(* its rows are all discarded before banding (the frame is empty), a line  *)
(* naming the station reports that it has no data, no Trend Result,        *)
(* summary row or figure is produced, and the summary, the figures and the *)
(* results of earlier stations are unchanged; the loop goes on.            *)
(***************************************************************************)
C9_NoDataStep ==
    ( /\ MultiStation /\ pc = "loop" /\ pos <= Len(files)
      /\ HasAllColumns(files[pos])
      /\ AllRowsUnusable(files[pos]) ) =>
        /\ df' = <<>>
        /\ log' = Append(log, [kind |-> "no_data", station |-> pos])
        /\ summary' = summary
        /\ plots' = plots
        /\ results' = results
        /\ written' = written
        /\ error' = error
        /\ pc' = "loop"
        /\ pos' = pos + 1

C9_NoDataStationLeavesStateAlone == [][C9_NoDataStep]_vars

\* The second station of a mean-script run had rows, all of them unusable;
\* it has been passed, and the first station's rows are in the summary.
C9_Witness ==
    /\ script = "mean" /\ pos >= 3
    /\ Len(files[2].rows) > 0 /\ HasAllColumns(files[2])
    /\ AllRowsUnusable(files[2])
    /\ Logged("no_data", 2)
    /\ summary # <<>>

(***************************************************************************)
(* C10.  After split_csv.py has run, every master row is in exactly one    *)
(* output file, distinct station IDs have distinct file names, and the     *)
(* reported counts sum to the number of master rows.  The claim is read    *)
(* in its favour, as speaking of the rows that have a station ID (groupby  *)
(* puts a row without one in no group).  It still fails: IDs that differ   *)
(* only in '/', ' ', '_' or surrounding blanks share one file name, and    *)
(* the later group's file replaces the earlier one.                        *)
(***************************************************************************)
RECURSIVE SumCounts(_)
SumCounts(c) == IF c = <<>> THEN 0 ELSE Head(c)[2] + SumCounts(Tail(c))

Identified == {i \in 1..Len(master) : master[i] # NaN}

C10_SplitKeepsEveryRow ==
    (script = "split" /\ pc = "done") =>
        /\ \A i \in Identified :
              Cardinality({n \in DOMAIN outdir : i \in outdir[n]}) = 1
        /\ \A i, j \in Identified :
              master[i] # master[j] => safe_id(master[i]) # safe_id(master[j])
        /\ SumCounts(counts) = Cardinality(Identified)

=============================================================================
